---- MODULE Spec2Model ----
(***************************************************************************)
(* Model of trailingstoploss_tp.py: the polling loop that arms and trails  *)
(* stop-loss / take-profit values of the long deals of the configured bots *)
(* and keeps one row per armed deal in the sqlite table "deals".           *)
(*                                                                         *)
(* Percentages are two-decimal fixed point: 3.0% is 300, 0.5 (a factor) is *)
(* 50.  Prices are whole numbers.  round(x, 2) gives the nearest           *)
(* hundredth of the exact quotient; a value halfway between two hundredths *)
(* may come out as either of them (the source computes in binary floating  *)
(* point).                                                                 *)
(***************************************************************************)
EXTENDS Integers, Sequences, FiniteSets, TLC

\* ------------------------------------------------------------------ bounds
\* The environment leaves the stop-loss of a deal alone, and the process
\* does not die on it, once the deal's take_profit is above this value: the
\* take-profit is the one quantity that grows with every arming.
MaxTakeProfit == 249

\* ------------------------------------------------------- platform scenario
DealIds == 1..4
BotIds == {1, 2}
LongDeals == {1, 2, 4}

\* Python's None for a stop_loss_percentage the platform does not report.
None == -100000

Strategy(d) == IF d = 3 THEN "short" ELSE "long"
BotOf(d) == IF d = 4 THEN 2 ELSE 1
bought_average_price(d) == 100
base_order_average_price(d) == 100

\* Profit percentages the platform may report for a deal.
Profits(d) ==
  IF d = 1 THEN {200, 300, 500, 600}
  ELSE IF d = 2 THEN {500}
  ELSE {300}
\* Stop-loss percentages a user may set by hand on the platform.
UserStoplosses(d) == IF d = 1 THEN {0, 100} ELSE {}

\* --------------------------------------------------------- configuration
\* The "tsl_tp_*" sections of the .ini file, in file order.
Sections ==
  << [botids |-> <<1>>, activation_percentage |-> 300,
      initial_stoploss_percentage |-> 100,
      sl_increment_factor |-> 50, tp_increment_factor |-> 50],
     [botids |-> <<2>>, activation_percentage |-> 300,
      initial_stoploss_percentage |-> 0,
      sl_increment_factor |-> 50, tp_increment_factor |-> 50] >>

check_interval == 120
monitor_interval == 60

VARIABLES
  state,             \* scheduler: "RUNNING", "WAITING", "STOPPED"
  section,           \* index of the section being walked (line 443)
  botidx,            \* index into the section's botids (line 462)
  phase,             \* position inside the cycle: "fetch", "deals", "interval"
  botdata,           \* the fetched bot: [id, active_deals]
  dealidx,           \* position of "for deal in deals" (line 123)
  monitored_deals,   \* local of process_deals
  current_deals,     \* local of process_deals
  deals_to_monitor,  \* line 441
  timeint,           \* line 476
  db,                \* table "deals": a set of rows
  platform,          \* the platform's view of every deal
  submits,           \* update_deal requests sent in this cycle
  accepted,          \* deals for which the platform acknowledged a non-zero stop-loss
  fetched,           \* bots whose fetch succeeded in this cycle
  removed,           \* deals whose row remove_active_deal deleted in this cycle
  crashed,           \* the push a died process left unrecorded, and its redo
  monitoring,        \* long deals found to require monitoring in this cycle
  halfway,           \* where round() lands on a value halfway between two hundredths
  failed,            \* submits that failed in this cycle or the one before,
                     \* of deals the platform has not changed since
  reset,             \* deals whose row remove_active_deal deleted in an earlier
                     \* cycle, until a cycle that fetches their bot has ended
  last               \* the engine step taken last

vars == <<state, section, botidx, phase, botdata, dealidx, monitored_deals,
          current_deals, deals_to_monitor, timeint, db, platform, submits,
          accepted, fetched, removed, crashed, monitoring, halfway,
          failed, reset, last>>

sched == <<state, section, botidx, phase>>

\* ----------------------------------------------------------- arithmetic
\* round(x, 2) of the source, x = n / d hundredths (d > 0): the nearest
\* hundredth. The source computes in binary floating point, where a value
\* that is exactly halfway between two hundredths comes out a little below
\* or a little above the middle: up = 0 is the lower neighbour, up = 1 the
\* upper one.
Round2(n, d, up) ==
  LET q == n \div d
      r == n % d
  IN  IF 2 * r < d THEN q
      ELSE IF 2 * r > d THEN q + 1
      ELSE q + up

\* Rounding to the nearest hundredth in decimal arithmetic, ties to even.
RoundHalfEven(n, d) ==
  LET q == n \div d
      r == n % d
  IN  IF 2 * r < d THEN q
      ELSE IF 2 * r > d THEN q + 1
      ELSE IF q % 2 = 0 THEN q ELSE q + 1

\* sl_price of new_long_deal, times 10^6.
SlPrice(deal, cfg) ==
  LET activation_diff == deal.actual_profit_percentage - cfg.activation_percentage
  IN  deal.bought_average_price
        * (1000000 + 100 * cfg.initial_stoploss_percentage
                   + activation_diff * cfg.sl_increment_factor)

\* Mutant: the percentage is taken from the average price, not from the
\* base order price.
ArmStoploss_OnAverage(deal, cfg) ==
  Round2(1000000 * deal.bought_average_price - SlPrice(deal, cfg),
                100 * deal.bought_average_price, halfway.stoploss)

\* new_stoploss of new_long_deal.
ArmStoploss(deal, cfg) ==
  Round2(1000000 * deal.base_order_average_price - SlPrice(deal, cfg),
                100 * deal.base_order_average_price, halfway.stoploss)

\* new_take_profit of new_long_deal.
ArmTakeProfit(deal, cfg) ==
  LET activation_diff == deal.actual_profit_percentage - cfg.activation_percentage
  IN  Round2(100 * deal.take_profit
                      + activation_diff * cfg.tp_increment_factor,
         100, halfway.take_profit)

\* Mutant: the profit change is added to the stop-loss, not subtracted.
TrailStoploss_Added(deal, existing, cfg) ==
  LET profit_diff == deal.actual_profit_percentage - existing.last_profit_percentage
  IN  Round2(100 * deal.stop_loss_percentage
                      + profit_diff * cfg.sl_increment_factor,
         100, halfway.stoploss)

\* new_stoploss of update_long_deal.
TrailStoploss(deal, existing, cfg) ==
  LET profit_diff == deal.actual_profit_percentage - existing.last_profit_percentage
  IN  Round2(100 * deal.stop_loss_percentage
                      - profit_diff * cfg.sl_increment_factor,
         100, halfway.stoploss)

\* new_take_profit of update_long_deal.
TrailTakeProfit(deal, existing, cfg) ==
  LET profit_diff == deal.actual_profit_percentage - existing.last_profit_percentage
  IN  Round2(100 * deal.take_profit
                      + profit_diff * cfg.tp_increment_factor,
         100, halfway.take_profit)

\* ----------------------------------------------------------------- store
\* check_deal: the rows with this dealid (none: the deal is not tracked).
check_deal(rows, deal_id) == {r \in rows : r.dealid = deal_id}

Row(deal_id, botid, profit, stoploss) ==
  [dealid |-> deal_id, botid |-> botid,
   last_profit_percentage |-> profit, last_stop_loss_percentage |-> stoploss]

InsertDeal(rows, deal_id, botid, profit, stoploss) ==
  rows \cup {Row(deal_id, botid, profit, stoploss)}

UpdateDealRow(rows, deal_id, profit, stoploss) ==
  {IF r.dealid = deal_id THEN Row(r.dealid, r.botid, profit, stoploss) ELSE r
     : r \in rows}

\* Mutant: the DELETE names the wrong column.
remove_active_deal_ByBot(rows, deal_id) == {r \in rows : r.botid # deal_id}

remove_active_deal(rows, deal_id) == {r \in rows : r.dealid # deal_id}

SeqRange(s) == {s[i] : i \in 1..Len(s)}

\* Mutant: the DELETE leaves out the bot.
remove_closed_deals_AnyBot(rows, bot_id, current) ==
  IF current # <<>>
  THEN {r \in rows : r.dealid \in SeqRange(current)}
  ELSE rows

remove_closed_deals(rows, bot_id, current) ==
  IF current # <<>>
  THEN {r \in rows : ~(r.botid = bot_id /\ r.dealid \notin SeqRange(current))}
  ELSE rows

\* Mutant: the DELETE stops after the first row it finds.
remove_all_deals_First(rows, bot_id) ==
  LET mine == {r \in rows : r.botid = bot_id}
  IN  IF mine = {} THEN rows
      ELSE rows \ {CHOOSE r \in mine : \A o \in mine : r.dealid <= o.dealid}

\* Mutant: the DELETE names the wrong column.
remove_all_deals_ByDeal(rows, bot_id) == {r \in rows : r.dealid # bot_id}

remove_all_deals(rows, bot_id) == {r \in rows : r.botid # bot_id}

\* -------------------------------------------------------------- platform
FetchedDeal(d) ==
  [id |-> d, strategy |-> Strategy(d),
   actual_profit_percentage |-> platform[d].actual_profit_percentage,
   bought_average_price |-> platform[d].bought_average_price,
   base_order_average_price |-> platform[d].base_order_average_price,
   stop_loss_percentage |-> platform[d].stop_loss_percentage,
   take_profit |-> platform[d].take_profit]

IsActiveOf(bot, d) == BotOf(d) = bot /\ platform[d].open

RECURSIVE ActiveDealsFrom(_, _)
ActiveDealsFrom(bot, d) ==
  IF d > 4 THEN <<>>
  ELSE (IF IsActiveOf(bot, d) THEN <<FetchedDeal(d)>> ELSE <<>>)
         \o ActiveDealsFrom(bot, d + 1)

\* "bots/show": the bot with its active deals, in deal id order.
ShowBot(bot) == [id |-> bot, active_deals |-> ActiveDealsFrom(bot, 1)]

\* "deals/update_deal" acknowledged: the platform overwrites both values.
Overwrite(plat, d, new_stoploss, new_take_profit) ==
  [plat EXCEPT ![d].stop_loss_percentage = new_stoploss,
               ![d].take_profit = new_take_profit]

Request(thebot, deal, new_stoploss, new_take_profit, ack) ==
  [bot |-> thebot, deal |-> deal.id, stop_loss_percentage |-> new_stoploss,
   take_profit |-> new_take_profit, ack |-> ack]

\* A process that died between the push of new_long_deal and its INSERT.
NoCrash ==
  [deal |-> 0, redone |-> TRUE, stop_loss |-> 0, take_profit |-> 0,
   again_stop_loss |-> 0, again_take_profit |-> 0]

\* ------------------------------------------------------------- conditions
\* Mutant: the threshold is taken one percent too low.
Activated_Early(deal, cfg) ==
  deal.actual_profit_percentage >= cfg.activation_percentage - 100

\* Mutant: a profit equal to the threshold does not count.
Activated_Strict(deal, cfg) ==
  deal.actual_profit_percentage > cfg.activation_percentage

\* line 135, second conjunct
Activated(deal, cfg) == deal.actual_profit_percentage >= cfg.activation_percentage

\* line 141
current_stoploss_percentage(deal_sl) == IF deal_sl = None THEN 0 ELSE deal_sl

\* Mutant: any change of the profit counts as an increase.
ProfitIncreased_Changed(deal, existing) ==
  deal.actual_profit_percentage # existing.last_profit_percentage

\* Mutant: a tie counts as an increase.
ProfitIncreased_OrEqual(deal, existing) ==
  deal.actual_profit_percentage >= existing.last_profit_percentage

\* line 236
ProfitIncreased(deal, existing) ==
  deal.actual_profit_percentage > existing.last_profit_percentage

\* Mutant: the test for 0.00 is missing.
NonZero_Unchecked(new_stoploss) == TRUE

\* lines 197 and 248: a stop-loss of 0.00 would switch the stop-loss off
NonZero(new_stoploss) == new_stoploss # 0

\* lines 136 and 143: "monitored_deals = +1"
Monitored(m) == 1

\* ------------------------------------------------------------------- Init
Init ==
  /\ state = "RUNNING"
  /\ section = 1
  /\ botidx = 1
  /\ phase = "fetch"
  /\ botdata = [id |-> 0, active_deals |-> <<>>]
  /\ dealidx = 0
  /\ monitored_deals = 0
  /\ current_deals = <<>>
  /\ deals_to_monitor = 0
  /\ timeint = 0
  /\ db = {Row(2, 1, 500, -200), Row(4, 2, 300, -100)}
  /\ platform = [d \in DealIds |->
                   IF d = 2
                   THEN [open |-> TRUE, actual_profit_percentage |-> 500,
                         bought_average_price |-> bought_average_price(d),
                         base_order_average_price |-> base_order_average_price(d),
                         stop_loss_percentage |-> -200, take_profit |-> 300]
                   ELSE [open |-> TRUE,
                         actual_profit_percentage |-> IF d = 4 THEN 300 ELSE 200,
                         bought_average_price |-> bought_average_price(d),
                         base_order_average_price |-> base_order_average_price(d),
                         stop_loss_percentage |-> None,
                         take_profit |-> 200]]
  /\ submits = {}
  /\ accepted = {2, 4}
  /\ fetched = {}
  /\ removed = {}
  /\ crashed = NoCrash
  /\ monitoring = {}
  /\ halfway = [stoploss |-> 0, take_profit |-> 0]
  /\ failed = {}
  /\ reset = {}
  /\ last = [op |-> "start", deal |-> 0, rows |-> {}]

\* ------------------------------------------------------------ main loop
cfg == Sections[section]
bot == cfg.botids[botidx]

\* Mutant: a bot that is done ends the cycle (a break, not a continue).
NextBot_Break ==
  /\ phase' = "interval"
  /\ UNCHANGED <<section, botidx>>

\* The loops of lines 443 and 462 move on to the next bot, or leave.
NextBot ==
  IF botidx < Len(cfg.botids)
  THEN /\ botidx' = botidx + 1
       /\ phase' = "fetch"
       /\ UNCHANGED section
  ELSE IF section < Len(Sections)
  THEN /\ section' = section + 1
       /\ botidx' = 1
       /\ phase' = "fetch"
  ELSE /\ phase' = "interval"
       /\ UNCHANGED <<section, botidx>>

\* lines 463-469: the fetch returned the bot; process_deals starts.
FetchBot ==
  /\ state = "RUNNING" /\ phase = "fetch"
  /\ botdata' = ShowBot(bot)
  /\ phase' = "deals"
  /\ dealidx' = 1
  /\ monitored_deals' = 0
  /\ current_deals' = <<>>
  /\ fetched' = fetched \cup {bot}
  /\ removed' = removed
  /\ crashed' = crashed
  /\ last' = [op |-> "fetch", deal |-> 0, rows |-> {}]
  /\ UNCHANGED <<state, section, botidx, deals_to_monitor, timeint, db,
                 platform, submits, accepted, monitoring,
                 halfway, failed, reset>>

\* Mutant: a failed fetch ends the program.
FetchBotFailed_Abort ==
  /\ state = "RUNNING" /\ phase = "fetch"
  /\ state' = "STOPPED"
  /\ last' = [op |-> "fetch_failed", deal |-> 0, rows |-> {}]
  /\ UNCHANGED <<section, botidx, phase, botdata, dealidx, monitored_deals,
                 current_deals, deals_to_monitor, timeint, db, platform,
                 submits, accepted, fetched, removed, crashed, monitoring,
                 halfway, failed, reset>>

\* lines 470-474: the fetch failed or returned no data.
FetchBotFailed ==
  /\ state = "RUNNING" /\ phase = "fetch"
  /\ NextBot
  /\ last' = [op |-> "fetch_failed", deal |-> 0, rows |-> {}]
  /\ UNCHANGED <<state, botdata, dealidx, monitored_deals, current_deals,
                 deals_to_monitor, timeint, db, platform, submits, accepted,
                 fetched, removed, crashed, monitoring,
                 halfway, failed, reset>>

\* ---------------------------------------------------------- process_deals
deals == botdata.active_deals
InDeal ==
  /\ state = "RUNNING" /\ phase = "deals"
  /\ dealidx >= 1 /\ dealidx <= Len(deals)
deal == deals[dealidx]
existing_deal == check_deal(db, deal.id)

\* lines 127-130
ShortDeal ==
  /\ InDeal
  /\ deal.strategy = "short"
  /\ dealidx' = dealidx + 1
  /\ last' = [op |-> "short", deal |-> deal.id, rows |-> db]
  /\ UNCHANGED <<sched, botdata, monitored_deals, current_deals,
                 deals_to_monitor, timeint, db, platform, submits, accepted,
                 fetched, removed, crashed, monitoring,
                 halfway, failed, reset>>

\* lines 131-139 with neither branch taken: not tracked, not yet activated.
NotActivated ==
  /\ InDeal
  /\ deal.strategy = "long"
  /\ existing_deal = {}
  /\ ~Activated(deal, cfg)
  /\ current_deals' = Append(current_deals, deal.id)
  /\ dealidx' = dealidx + 1
  /\ last' = [op |-> "not_activated", deal |-> deal.id, rows |-> db]
  /\ UNCHANGED <<sched, botdata, monitored_deals, deals_to_monitor, timeint,
                 db, platform, submits, accepted, fetched, removed, crashed,
                 monitoring,
                 halfway, failed, reset>>

\* update_deal, lines 81-109: the request goes out; the platform overwrites
\* its values when it acknowledges. Nothing is returned to the caller.
update_deal(thebot, d, new_stoploss, new_take_profit, ack) ==
  /\ submits' = submits \cup {Request(thebot, d, new_stoploss, new_take_profit, ack)}
  /\ platform' = IF ack THEN Overwrite(platform, d.id, new_stoploss, new_take_profit)
                 ELSE platform
  /\ accepted' = IF ack THEN accepted \cup {d.id} ELSE accepted
  /\ failed' = IF ack THEN failed
               ELSE failed \cup {[deal |-> d.id, stop_loss_percentage |-> new_stoploss,
                                  take_profit |-> new_take_profit, before |-> FALSE]}

\* The first evaluation of a deal after the crash that lost its row.
Redo(c, d, new_stoploss, new_take_profit) ==
  IF c.deal = d.id /\ ~c.redone
  THEN [c EXCEPT !.redone = TRUE, !.again_stop_loss = new_stoploss,
                 !.again_take_profit = new_take_profit]
  ELSE c

\* lines 135-138 and new_long_deal, lines 166-226
NewLongDeal ==
  /\ InDeal
  /\ deal.strategy = "long"
  /\ existing_deal = {}
  /\ Activated(deal, cfg)
  /\ monitored_deals' = Monitored(monitored_deals)
  /\ monitoring' = monitoring \cup {deal.id}
  /\ current_deals' = Append(current_deals, deal.id)
  /\ dealidx' = dealidx + 1
  /\ LET new_stoploss == ArmStoploss(deal, cfg)
         new_take_profit == ArmTakeProfit(deal, cfg)
     IN  IF NonZero(new_stoploss)
         THEN /\ \E ack \in BOOLEAN :
                   update_deal(botdata.id, deal, new_stoploss, new_take_profit, ack)
              /\ db' = InsertDeal(db, deal.id, botdata.id,
                                  deal.actual_profit_percentage, new_stoploss)
         ELSE UNCHANGED <<db, platform, submits, accepted, failed>>
  /\ crashed' = Redo(crashed, deal, ArmStoploss(deal, cfg), ArmTakeProfit(deal, cfg))
  /\ last' = [op |-> "new_long_deal", deal |-> deal.id, rows |-> db]
  /\ UNCHANGED <<sched, botdata, deals_to_monitor, timeint, fetched, removed,
                 halfway, reset>>

\* lines 139-145 and update_long_deal, lines 229-299
UpdateLongDeal ==
  /\ InDeal
  /\ deal.strategy = "long"
  /\ existing_deal # {}
  /\ current_stoploss_percentage(deal.stop_loss_percentage) # 0
  /\ monitored_deals' = Monitored(monitored_deals)
  /\ monitoring' = monitoring \cup {deal.id}
  /\ current_deals' = Append(current_deals, deal.id)
  /\ dealidx' = dealidx + 1
  /\ LET existing == CHOOSE r \in existing_deal : TRUE
         new_stoploss == TrailStoploss(deal, existing, cfg)
         new_take_profit == TrailTakeProfit(deal, existing, cfg)
     IN  IF ProfitIncreased(deal, existing) /\ NonZero(new_stoploss)
         THEN /\ \E ack \in BOOLEAN :
                   update_deal(botdata.id, deal, new_stoploss, new_take_profit, ack)
              /\ db' = UpdateDealRow(db, deal.id,
                                     deal.actual_profit_percentage, new_stoploss)
         ELSE UNCHANGED <<db, platform, submits, accepted, failed>>
  /\ last' = [op |-> "update_long_deal", deal |-> deal.id, rows |-> db]
  /\ UNCHANGED <<sched, botdata, deals_to_monitor, timeint, fetched, removed,
                 crashed, halfway, reset>>

\* lines 146-148 and remove_active_deal, lines 302-314
RemoveActiveDeal ==
  /\ InDeal
  /\ deal.strategy = "long"
  /\ existing_deal # {}
  /\ current_stoploss_percentage(deal.stop_loss_percentage) = 0
  /\ db' = remove_active_deal(db, deal.id)
  /\ current_deals' = Append(current_deals, deal.id)
  /\ dealidx' = dealidx + 1
  /\ removed' = removed \cup {deal.id}
  /\ last' = [op |-> "remove_active_deal", deal |-> deal.id, rows |-> db]
  /\ UNCHANGED <<sched, botdata, monitored_deals, deals_to_monitor, timeint,
                 platform, submits, accepted, fetched, crashed, monitoring,
                 halfway, failed, reset>>

\* process_deals returns: its locals are gone, the fetched bot is not read
\* again.
Return ==
  /\ botdata' = [id |-> 0, active_deals |-> <<>>]
  /\ dealidx' = 0
  /\ monitored_deals' = 0
  /\ current_deals' = <<>>
  /\ deals_to_monitor' = deals_to_monitor + monitored_deals
  /\ NextBot

\* lines 150-156, 163 and 469: housekeeping after the last deal.
RemoveClosedDeals ==
  /\ state = "RUNNING" /\ phase = "deals"
  /\ deals # <<>>
  /\ dealidx > Len(deals)
  /\ db' = remove_closed_deals(db, botdata.id, current_deals)
  /\ Return
  /\ last' = [op |-> "remove_closed_deals", deal |-> 0, rows |-> db]
  /\ UNCHANGED <<state, timeint, platform, submits, accepted, fetched, removed,
                 crashed, monitoring,
                 halfway, failed, reset>>

\* lines 157-163 and 469: the bot has no active deals.
RemoveAllDeals ==
  /\ state = "RUNNING" /\ phase = "deals"
  /\ deals = <<>>
  /\ db' = remove_all_deals(db, botdata.id)
  /\ Return
  /\ last' = [op |-> "remove_all_deals", deal |-> 0, rows |-> db]
  /\ UNCHANGED <<state, timeint, platform, submits, accepted, fetched, removed,
                 crashed, monitoring,
                 halfway, failed, reset>>

\* new_long_deal pushed (line 214, acknowledged) and the process died before
\* the INSERT of line 216. It is started again: the table is the one on
\* disk, the loop begins a cycle.
CrashAfterPush ==
  /\ InDeal
  /\ deal.strategy = "long"
  /\ existing_deal = {}
  /\ Activated(deal, cfg)
  /\ NonZero(ArmStoploss(deal, cfg))
  /\ deal.take_profit <= MaxTakeProfit
  /\ crashed.redone
  /\ platform' = Overwrite(platform, deal.id, ArmStoploss(deal, cfg),
                           ArmTakeProfit(deal, cfg))
  /\ accepted' = accepted \cup {deal.id}
  /\ crashed' = [deal |-> deal.id, redone |-> FALSE,
                 stop_loss |-> ArmStoploss(deal, cfg),
                 take_profit |-> ArmTakeProfit(deal, cfg),
                 again_stop_loss |-> 0, again_take_profit |-> 0]
  /\ state' = "RUNNING" /\ section' = 1 /\ botidx' = 1 /\ phase' = "fetch"
  /\ botdata' = [id |-> 0, active_deals |-> <<>>]
  /\ dealidx' = 0 /\ monitored_deals' = 0 /\ current_deals' = <<>>
  /\ deals_to_monitor' = 0
  /\ timeint' = 0
  /\ submits' = {}
  /\ fetched' = {}
  /\ removed' = {}
  /\ monitoring' = {}
  /\ last' = [op |-> "crash", deal |-> deal.id, rows |-> {}]
  /\ failed' = {}
  /\ reset' = reset \cup removed
  /\ UNCHANGED <<db, halfway>>

\* Mutant: the two intervals are taken the wrong way round.
Interval_Swapped(n) == IF n = 0 THEN monitor_interval ELSE check_interval

\* line 476
Interval(n) == IF n = 0 THEN check_interval ELSE monitor_interval

\* lines 476-477: choose the interval and start to wait.
EnterWait ==
  /\ state = "RUNNING" /\ phase = "interval"
  /\ timeint' = Interval(deals_to_monitor)
  /\ state' = "WAITING"
  /\ crashed' = IF crashed.redone THEN NoCrash ELSE crashed
  /\ failed' = {f \in failed : ~f.before}
  /\ reset' = {d \in reset : BotOf(d) \notin fetched}
  /\ last' = [op |-> "wait", deal |-> 0, rows |-> {}]
  /\ UNCHANGED <<section, botidx, phase, botdata, dealidx, monitored_deals,
                 current_deals, deals_to_monitor, db, platform, submits,
                 accepted, fetched, removed, monitoring, halfway>>

\* wait_time_interval returned True: lines 433-441 start the next cycle.
WaitOver ==
  /\ state = "WAITING"
  /\ state' = "RUNNING"
  /\ section' = 1 /\ botidx' = 1 /\ phase' = "fetch"
  /\ deals_to_monitor' = 0
  /\ submits' = {}
  /\ fetched' = {}
  /\ removed' = {}
  /\ monitoring' = {}
  /\ timeint' = 0
  /\ last' = [op |-> "cycle", deal |-> 0, rows |-> {}]
  /\ failed' = {[f EXCEPT !.before = TRUE] : f \in failed}
  /\ reset' = reset \cup removed
  /\ UNCHANGED <<botdata, dealidx, monitored_deals, current_deals, db,
                 platform, accepted, crashed, halfway>>

\* wait_time_interval returned False: line 478 leaves the loop.
WaitStopped ==
  /\ state = "WAITING"
  /\ state' = "STOPPED"
  /\ last' = [op |-> "stop", deal |-> 0, rows |-> {}]
  /\ UNCHANGED <<section, botidx, phase, botdata, dealidx, monitored_deals,
                 current_deals, deals_to_monitor, timeint, db, platform,
                 submits, accepted, fetched, removed, crashed, monitoring,
                 halfway, failed, reset>>

\* ------------------------------------------------------------ environment
\* The platform changes between two cycles. (The engine sees the platform
\* only through the fetch of each cycle.) The record of the cycle that ended
\* is dropped with the first change.
Moved ==
  /\ submits' = {}
  /\ fetched' = {}
  /\ removed' = {}
  /\ monitoring' = {}
  /\ last' = [op |-> "platform", deal |-> 0, rows |-> {}]
  /\ UNCHANGED <<state, section, botidx, phase, botdata, dealidx,
                 monitored_deals, current_deals, deals_to_monitor, timeint,
                 db, accepted, halfway>>

\* A crash whose deal changed before its redo is no longer "unchanged".
Forget(c, d) == IF c.deal = d /\ ~c.redone THEN NoCrash ELSE c
\* Nor is a failed submit whose deal changed. The rows the cycle deleted
\* for a reset are kept on record when the cycle's own record is dropped.
Changed(d) ==
  /\ failed' = {f \in failed : f.deal # d}
  /\ reset' = reset \cup removed

SetProfit ==
  /\ state = "WAITING"
  /\ \E d \in LongDeals :
       \E p \in Profits(d) :
         /\ platform[d].open
         /\ p # platform[d].actual_profit_percentage
         /\ platform' = [platform EXCEPT ![d].actual_profit_percentage = p]
         /\ crashed' = Forget(crashed, d)
         /\ Changed(d)
  /\ Moved

CloseDeal ==
  /\ state = "WAITING"
  /\ \E d \in DealIds :
       /\ platform[d].open
       /\ platform' = [platform EXCEPT ![d].open = FALSE]
       /\ crashed' = Forget(crashed, d)
       /\ failed' = {f \in failed : f.deal # d}
       /\ reset' = (reset \cup removed) \ {d}
  /\ Moved

UserSetStoploss ==
  /\ state = "WAITING"
  /\ \E d \in LongDeals :
       \E s \in UserStoplosses(d) :
         /\ platform[d].open
         /\ s # platform[d].stop_loss_percentage
         /\ platform[d].take_profit <= MaxTakeProfit
         /\ platform' = [platform EXCEPT ![d].stop_loss_percentage = s]
         /\ Changed(d)
  /\ UNCHANGED crashed
  /\ Moved

Next ==
  \/ FetchBot
  \/ FetchBotFailed
  \/ ShortDeal
  \/ NotActivated
  \/ NewLongDeal
  \/ UpdateLongDeal
  \/ RemoveActiveDeal
  \/ RemoveClosedDeals
  \/ RemoveAllDeals
  \/ CrashAfterPush
  \/ EnterWait
  \/ WaitOver
  \/ WaitStopped
  \/ SetProfit
  \/ CloseDeal
  \/ UserSetStoploss

Spec == Init /\ [][Next]_vars

\* ------------------------------------------------- arming, input by input
\* The first cycle on an empty table, with the first deal of bot 1 reported
\* with other profits, prices and take-profits, and round() landing on
\* either side of a halfway value.
ArmProfits == {200, 300, 400, 500}
ArmAverages == {90, 100, 103}
ArmBases == {97, 100}
ArmTakeProfits == {150, 200}

InitArm ==
  /\ state = "RUNNING"
  /\ section = 1
  /\ botidx = 1
  /\ phase = "fetch"
  /\ botdata = [id |-> 0, active_deals |-> <<>>]
  /\ dealidx = 0
  /\ monitored_deals = 0
  /\ current_deals = <<>>
  /\ deals_to_monitor = 0
  /\ timeint = 0
  /\ db = {}
  /\ \E p \in ArmProfits, avg \in ArmAverages, base \in ArmBases,
        tp \in ArmTakeProfits :
       platform = [d \in DealIds |->
                     IF d = 1
                     THEN [open |-> TRUE, actual_profit_percentage |-> p,
                           bought_average_price |-> avg,
                           base_order_average_price |-> base,
                           stop_loss_percentage |-> None, take_profit |-> tp]
                     ELSE [open |-> TRUE,
                           actual_profit_percentage |-> IF d = 4 THEN 300 ELSE 200,
                           bought_average_price |-> bought_average_price(d),
                           base_order_average_price |-> base_order_average_price(d),
                           stop_loss_percentage |-> None, take_profit |-> 200]]
  /\ submits = {}
  /\ accepted = {}
  /\ fetched = {}
  /\ removed = {}
  /\ crashed = NoCrash
  /\ monitoring = {}
  /\ halfway \in [stoploss : 0..1, take_profit : 0..1]
  /\ failed = {}
  /\ reset = {}
  /\ last = [op |-> "start", deal |-> 0, rows |-> {}]

NextArm ==
  \/ FetchBot
  \/ ShortDeal
  \/ NotActivated
  \/ NewLongDeal
  \/ RemoveClosedDeals

SpecArm == InitArm /\ [][NextArm]_vars

\* ================================================================ claims
\* The requests sent by the step, and the step's effect on one deal's row.
Sent == submits' \ submits
Untouched == submits' = submits /\ db' = db /\ platform' = platform

\* C1: the store is written only after the platform acknowledged the submit
\* for that deal: a step whose submit failed or returned no data creates no
\* row and leaves the existing row as it was.
C1_StoreOnlyAfterAck ==
  [][\A r \in Sent : ~r.ack => db' = db]_vars

\* C2: the first evaluation of a deal after a crash between push and
\* INSERT, with the deal untracked and its profit and prices unchanged,
\* pushes the stop-loss and the take-profit that the push before the crash
\* carried.
C2_RedoPushesSameValues ==
  (crashed.deal # 0 /\ crashed.redone)
    => /\ crashed.again_stop_loss = crashed.stop_loss
       /\ crashed.again_take_profit = crashed.take_profit

\* C3: at the cycle boundary, for every bot fetched in the cycle, a deal has
\* a row if and only if the platform accepted a non-zero stop-loss the engine
\* pushed for it and the deal is still active with a non-zero stop-loss.
C3_RowIffArmedAndActive ==
  (state = "WAITING" /\ last.op = "wait")
    => \A d \in LongDeals :
         BotOf(d) \in fetched
           => (check_deal(db, d) # {}
                 <=> /\ d \in accepted
                     /\ platform[d].open
                     /\ current_stoploss_percentage(platform[d].stop_loss_percentage) # 0)

\* The step processes a long deal of the fetched bot; its row, if tracked.
ProcessingLong == InDeal /\ deal.strategy = "long"
Tracked == existing_deal # {}
TheRow == CHOOSE r \in existing_deal : TRUE
RemoteStoplossOn == deal.stop_loss_percentage \notin {0, None}
\* The deal the last step processed (the loop has moved one on).
Processed == deals[dealidx - 1]
OldRow == CHOOSE r \in check_deal(last.rows, last.deal) : TRUE
NewRow == CHOOSE r \in check_deal(db, last.deal) : TRUE

\* An update of a tracked deal with increased profit and a positive factor.
TrailingUpdate ==
  /\ ProcessingLong /\ Tracked /\ RemoteStoplossOn
  /\ deal.actual_profit_percentage > TheRow.last_profit_percentage
  /\ cfg.sl_increment_factor > 0
  /\ Sent # {}

\* C4 as claimed: every update with increased profit and a positive factor
\* yields new_stoploss <= actual_stoploss, and the stored
\* last_stop_loss_percentage is not above the one stored before.
C4_StoredStoplossNeverRises ==
  [][TrailingUpdate =>
       /\ \A r \in Sent : r.stop_loss_percentage <= deal.stop_loss_percentage
       /\ \A n \in check_deal(db', deal.id) :
            n.last_stop_loss_percentage <= TheRow.last_stop_loss_percentage]_vars

\* C4 amended: every update with increased profit and a positive factor
\* yields new_stoploss <= actual_stoploss, the stop-loss fetched from the
\* platform, and stores exactly that new_stoploss.
C4_TrailsFetchedStoploss ==
  [][TrailingUpdate =>
       /\ \A r \in Sent : r.stop_loss_percentage <= deal.stop_loss_percentage
       /\ \A r \in Sent : \A n \in check_deal(db', deal.id) :
            n.last_stop_loss_percentage = r.stop_loss_percentage]_vars

\* An update was pushed and stored, and the stored stop-loss went up.
C4_Witness ==
  /\ last.op = "update_long_deal"
  /\ \E r \in submits : r.deal = last.deal
  /\ check_deal(last.rows, last.deal) # {}
  /\ NewRow.last_stop_loss_percentage > OldRow.last_stop_loss_percentage

\* C5: when process_deals has gone through the deals of a bot with at least
\* one active deal, no row of that bot is left whose deal is not active.
C5_NoRowOfClosedDeal ==
  [][(state = "RUNNING" /\ phase = "deals" /\ deals # <<>> /\ dealidx > Len(deals))
       => \A r \in db' :
            r.botid = botdata.id => \E i \in 1..Len(deals) : deals[i].id = r.dealid]_vars

\* C6: a fetched bot without active deals loses all its rows; nothing is
\* submitted, no row is created or changed.
C6_NoActiveDeals ==
  [][(state = "RUNNING" /\ phase = "deals" /\ deals = <<>>)
       => /\ \A r \in db' : r.botid # botdata.id
          /\ db' \subseteq db
          /\ submits' = submits
          /\ platform' = platform]_vars

\* remove_all_deals ran and deleted rows.
C6_Witness ==
  /\ last.op = "remove_all_deals"
  /\ last.rows # db
  /\ submits = {}

\* C7: an untracked long deal with profit below the activation percentage
\* causes no submit and no row, in every cycle.
C7_BelowActivation ==
  [][(ProcessingLong /\ ~Tracked
        /\ deal.actual_profit_percentage < cfg.activation_percentage)
       => Untouched]_vars

\* An untracked deal below activation was processed, and nothing happened.
C7_Witness ==
  /\ last.op = "not_activated"
  /\ Processed.actual_profit_percentage < cfg.activation_percentage
  /\ check_deal(db, last.deal) = {}
  /\ db = last.rows
  /\ \A r \in submits : r.deal # last.deal

\* C8: a computed new_stoploss of exactly 0.00 means no submit and an
\* unchanged store, on the arming path and on the trailing path.
C8_ZeroStoploss ==
  [][(ProcessingLong
        /\ \/ ~Tracked /\ deal.actual_profit_percentage >= cfg.activation_percentage
                       /\ ArmStoploss(deal, cfg) = 0
           \/ Tracked /\ RemoteStoplossOn
                      /\ deal.actual_profit_percentage > TheRow.last_profit_percentage
                      /\ TrailStoploss(deal, TheRow, cfg) = 0)
       => Untouched]_vars

\* A tracked deal whose profit rose was trailed to exactly 0.00.
C8_Witness ==
  /\ last.op = "update_long_deal"
  /\ check_deal(db, last.deal) # {}
  /\ Processed.actual_profit_percentage > NewRow.last_profit_percentage
  /\ TrailStoploss(Processed, NewRow, cfg) = 0
  /\ db = last.rows
  /\ \A r \in submits : r.deal # last.deal

\* C9: a tracked long deal fetched with stop-loss 0 or absent loses its row
\* without a submit, and is not armed again in the same cycle.
C9_ExternalReset ==
  /\ [][(ProcessingLong /\ Tracked /\ ~RemoteStoplossOn)
          => /\ check_deal(db', deal.id) = {}
             /\ submits' = submits
             /\ platform' = platform]_vars
  /\ [](\A d \in removed :
          /\ check_deal(db, d) = {}
          /\ \A r \in submits : r.deal # d)

\* The row of a deal was deleted because its stop-loss was reset.
C9_Witness ==
  /\ last.op = "remove_active_deal"
  /\ check_deal(last.rows, last.deal) # {}
  /\ check_deal(db, last.deal) = {}
  /\ Processed.stop_loss_percentage = 0

\* C10: a tracked deal with non-zero remote stop-loss whose profit is not
\* above last_profit_percentage causes no submit and no change; a tracked
\* deal is submitted only when its profit rose.
C10_StrictIncreaseOnly ==
  [][(ProcessingLong /\ Tracked /\ RemoteStoplossOn)
       => /\ deal.actual_profit_percentage <= TheRow.last_profit_percentage
               => Untouched
          /\ Sent # {}
               => deal.actual_profit_percentage > TheRow.last_profit_percentage]_vars

\* A tracked deal whose profit fell was processed, and nothing happened.
C10_Witness ==
  /\ last.op = "update_long_deal"
  /\ check_deal(db, last.deal) # {}
  /\ Processed.actual_profit_percentage < NewRow.last_profit_percentage
  /\ db = last.rows
  /\ \A r \in submits : r.deal # last.deal

\* The bot being walked is the last one of the last section.
LastBot == section = Len(Sections) /\ botidx = Len(cfg.botids)
\* The step is a fetch that failed or returned no data.
FetchFails == state = "RUNNING" /\ phase = "fetch" /\ last'.op = "fetch_failed"

\* C11: a failed fetch creates, changes and deletes no row and submits
\* nothing; the loop goes on with the next bot, or ends the cycle after the
\* last one. In a cycle, every request and every row created, changed or
\* deleted belongs to a bot whose fetch succeeded in that cycle.
C11_FetchFailureSkipsBot ==
  /\ [][FetchFails
          => /\ Untouched
             /\ state' = "RUNNING"
             /\ IF LastBot THEN phase' = "interval"
                ELSE phase' = "fetch" /\ <<section', botidx'>> # <<section, botidx>>]_vars
  /\ [][\A r \in (db \ db') \cup (db' \ db) : r.botid \in fetched']_vars
  /\ [](\A r \in submits : r.bot \in fetched)

\* The fetch of bot 1 failed, bot 2 was processed; the rows of bot 1 are
\* the ones it had, nothing was submitted for it.
C11_Witness ==
  /\ state = "WAITING" /\ last.op = "wait"
  /\ fetched = {2}
  /\ \E r \in db : r.botid = 1
  /\ \A r \in submits : r.bot # 1

\* C12: the interval chosen at the end of a cycle is monitor_interval if and
\* only if a long deal processed in the cycle required monitoring (untracked
\* with profit at or above activation, or tracked with non-zero remote
\* stop-loss), and check_interval otherwise; every cycle starts with
\* deals_to_monitor = 0.
C12_IntervalFollowsMonitoring ==
  /\ [][(state = "RUNNING" /\ phase = "interval")
          => /\ (timeint' = monitor_interval <=> monitoring # {})
             /\ (timeint' = check_interval <=> monitoring = {})]_vars
  /\ []((state = "RUNNING" /\ phase = "fetch" /\ section = 1 /\ botidx = 1)
          => deals_to_monitor = 0)
  /\ [][(state = "WAITING" /\ state' = "RUNNING") => deals_to_monitor' = 0]_vars

\* A cycle after a cycle that monitored deals found nothing to monitor and
\* chose check_interval.
C12_Witness ==
  /\ state = "WAITING" /\ last.op = "wait"
  /\ monitoring = {}
  /\ fetched = {1, 2}
  /\ timeint = check_interval
  /\ accepted # {2, 4}

\* Two bots had deals to monitor and the cycle chose monitor_interval.
C12_WitnessMonitor ==
  /\ state = "WAITING" /\ last.op = "wait"
  /\ {2, 4} \subseteq monitoring
  /\ timeint = monitor_interval

\* The loops of lines 443 and 462 step from one bot to the one after it.
Advance ==
  IF botidx < Len(cfg.botids)
  THEN section' = section /\ botidx' = botidx + 1
  ELSE section' = section + 1 /\ botidx' = 1
\* The process died and was started again.
Restarted == last'.op = "crash"

\* C13: the scheduler leaves RUNNING only for WAITING and only after the
\* last bot of the last section; bots are walked one after the other from
\* the first, none is left out; STOPPED is entered only from WAITING, and
\* from STOPPED nothing is fetched, submitted or written; a cycle starts
\* only from WAITING, when the one before has ended. (A process that dies
\* is not a shutdown request: its restart is set apart.)
C13_StopOnlyAtWaitBoundary ==
  /\ [][(state = "RUNNING" /\ state' # "RUNNING")
          => phase = "interval" /\ state' = "WAITING"]_vars
  /\ [](phase = "interval" => LastBot)
  /\ [][(state = "RUNNING" /\ <<section', botidx'>> # <<section, botidx>>
            /\ ~Restarted) => Advance /\ phase' = "fetch"]_vars
  /\ [][state' = "STOPPED" => state \in {"WAITING", "STOPPED"}]_vars
  /\ [][state = "STOPPED" => FALSE]_vars
  /\ [][(phase' = "fetch" /\ section' = 1 /\ botidx' = 1 /\ ~Restarted
            /\ <<phase, section, botidx>> # <<"fetch", 1, 1>>)
          => state = "WAITING" /\ phase = "interval"]_vars

\* The loop stopped after a cycle that fetched every bot and submitted.
C13_Witness ==
  /\ state = "STOPPED" /\ last.op = "stop"
  /\ phase = "interval"
  /\ fetched = {1, 2}
  /\ submits # {}

\* The reconciliation process_deals runs after the last deal of the bot.
AtReconciliation == state = "RUNNING" /\ phase = "deals" /\ dealidx > Len(deals)
Reconciled(rows) ==
  IF deals # <<>> THEN remove_closed_deals(rows, botdata.id, current_deals)
  ELSE remove_all_deals(rows, botdata.id)

\* C14: reconciliation run a second time for the same bot and the same
\* active deals, on the store the first run left, deletes nothing.
C14_ReconciliationIdempotent ==
  [][AtReconciliation
       => /\ db' = Reconciled(db)
          /\ Reconciled(db') = db']_vars

\* Reconciliation of a bot without active deals deleted two rows.
C14_Witness ==
  /\ last.op = "remove_all_deals"
  /\ Cardinality(last.rows \ db) = 2
  /\ db \subseteq last.rows

\* Reconciliation of a bot with active deals deleted the row of a closed one.
C14_WitnessClosed ==
  /\ last.op = "remove_closed_deals"
  /\ last.rows \ db # {}

\* The arming values as the claim writes them, in hundredths of a percent:
\* 100 - (bought_average_price * (1 + initial_stoploss_percentage/100
\*        + (activation_diff/100) * sl_increment_factor)
\*        / base_order_average_price) * 100, and
\* take_profit + activation_diff * tp_increment_factor, both rounded.
\* Each is a quotient Num / Den of whole numbers before it is rounded.
StoplossNum(d, c) ==
  LET activation_diff == d.actual_profit_percentage - c.activation_percentage
      onePlus == 1000000 + 100 * c.initial_stoploss_percentage
                   + activation_diff * c.sl_increment_factor
  IN  100 * 10000 * d.base_order_average_price - d.bought_average_price * onePlus
StoplossDen(d) == 100 * d.base_order_average_price
TakeProfitNum(d, c) ==
  LET activation_diff == d.actual_profit_percentage - c.activation_percentage
  IN  100 * d.take_profit + activation_diff * c.tp_increment_factor
ClaimedStoploss(d, c) == RoundHalfEven(StoplossNum(d, c), StoplossDen(d))
ClaimedTakeProfit(d, c) == RoundHalfEven(TakeProfitNum(d, c), 100)
\* x is a hundredth nearest to n / d.
Nearest(x, n, d) == 2 * (x * d - n) <= d /\ 2 * (n - x * d) <= d
\* The deal and the section of the spec's example scenario.
IsExample(d, c) ==
  /\ c.activation_percentage = 300 /\ c.initial_stoploss_percentage = 100
  /\ c.sl_increment_factor = 50 /\ c.tp_increment_factor = 50
  /\ d.actual_profit_percentage = 500 /\ d.take_profit = 200
  /\ d.bought_average_price = 100 /\ d.base_order_average_price = 100

\* C15 as claimed: arming pushes the stop-loss and the take-profit of the
\* claim's formulas, computed in two-decimal fixed point, and stores the
\* fetched profit with that stop-loss; the example scenario pushes
\* (-2.0, 3.0) and stores (5.0, -2.0).
C15_ArmingValues ==
  [][(ProcessingLong /\ ~Tracked
        /\ deal.actual_profit_percentage >= cfg.activation_percentage
        /\ ClaimedStoploss(deal, cfg) # 0)
       => /\ \E r \in Sent :
               /\ Sent = {r}
               /\ r.deal = deal.id
               /\ r.stop_loss_percentage = ClaimedStoploss(deal, cfg)
               /\ r.take_profit = ClaimedTakeProfit(deal, cfg)
               /\ IsExample(deal, cfg)
                    => r.stop_loss_percentage = -200 /\ r.take_profit = 300
          /\ db' = db \cup {Row(deal.id, botdata.id, deal.actual_profit_percentage,
                                ClaimedStoploss(deal, cfg))}
          /\ IsExample(deal, cfg)
               => check_deal(db', deal.id) = {Row(deal.id, botdata.id, 500, -200)}]_vars

\* C15 amended: the pushed stop-loss and take-profit are hundredths nearest
\* to the values of the claim's formulas (either neighbour when the value is
\* halfway between two), the row stores the fetched profit with the pushed
\* stop-loss, nothing is pushed or stored when the stop-loss comes out
\* 0.00, and the example scenario pushes (-2.0, 3.0) and stores (5.0, -2.0).
C15_ArmingNearest ==
  [][(ProcessingLong /\ ~Tracked
        /\ deal.actual_profit_percentage >= cfg.activation_percentage)
       => IF Sent = {}
          THEN Untouched /\ Nearest(0, StoplossNum(deal, cfg), StoplossDen(deal))
          ELSE \E r \in Sent :
                 /\ Sent = {r}
                 /\ r.deal = deal.id
                 /\ r.stop_loss_percentage # 0
                 /\ Nearest(r.stop_loss_percentage,
                            StoplossNum(deal, cfg), StoplossDen(deal))
                 /\ Nearest(r.take_profit, TakeProfitNum(deal, cfg), 100)
                 /\ db' = db \cup {Row(deal.id, botdata.id,
                                       deal.actual_profit_percentage,
                                       r.stop_loss_percentage)}
                 /\ IsExample(deal, cfg)
                      => r.stop_loss_percentage = -200 /\ r.take_profit = 300]_vars

\* The example scenario was armed: (-2.0, 3.0) pushed, (5.0, -2.0) stored.
C15_Witness ==
  /\ last.op = "new_long_deal"
  /\ IsExample(Processed, cfg)
  /\ \E r \in submits :
       r.deal = last.deal /\ r.stop_loss_percentage = -200 /\ r.take_profit = 300
  /\ check_deal(db, last.deal) = {Row(last.deal, 1, 500, -200)}

\* A deal whose average price is not its base order price was armed with a
\* stop-loss that had to be rounded.
C15_WitnessRounded ==
  /\ last.op = "new_long_deal"
  /\ Processed.bought_average_price # Processed.base_order_average_price
  /\ StoplossNum(Processed, cfg) % StoplossDen(Processed) # 0
  /\ check_deal(db, last.deal) # {}

\* Profit 4.0 at activation 3.0, average price 103, base order price 100:
\* the stop-loss is halfway between -4.55 and -4.54, and -4.55 was pushed and
\* stored.
C15_WitnessHalfway ==
  /\ last.op = "new_long_deal"
  /\ Processed.actual_profit_percentage = 400
  /\ Processed.bought_average_price = 103
  /\ Processed.base_order_average_price = 100
  /\ cfg.initial_stoploss_percentage = 100
  /\ ClaimedStoploss(Processed, cfg) = -454
  /\ check_deal(db, last.deal) = {Row(last.deal, 1, 400, -455)}

\* Arming came out 0.00 (profit at activation, no initial stop-loss, equal
\* prices): nothing was pushed or stored.
C15_WitnessZero ==
  /\ last.op = "new_long_deal"
  /\ StoplossNum(Processed, cfg) = 0
  /\ check_deal(db, last.deal) = {}
  /\ \A r \in submits : r.deal # last.deal

\* C16: a submit that failed in a cycle, for a deal that the platform
\* reports unchanged in the next cycle, is made again in that cycle with the
\* same stop-loss and take-profit (the deal's bot being fetched).
C16_FailedSubmitRetried ==
  [][(state = "RUNNING" /\ phase = "interval")
       => \A f \in failed :
            (f.before /\ BotOf(f.deal) \in fetched)
              => \E r \in submits :
                   /\ r.deal = f.deal
                   /\ r.stop_loss_percentage = f.stop_loss_percentage
                   /\ r.take_profit = f.take_profit]_vars

\* The deals of a bot that were found to require monitoring in this cycle.
MonitoringOf(b) == {d \in monitoring : BotOf(d) = b}

\* C17: process_deals returns the number of long deals of the bot that
\* require monitoring, and at the end of the cycle deals_to_monitor is the
\* sum of these numbers over the bots processed.
C17_MonitoredCount ==
  /\ [][AtReconciliation
          => deals_to_monitor' - deals_to_monitor
               = Cardinality(MonitoringOf(botdata.id))]_vars
  /\ []((state = "RUNNING" /\ phase = "interval")
          => deals_to_monitor = Cardinality(monitoring))

\* The section that configures a bot.
SectionOf(b) == CHOOSE c \in SeqRange(Sections) : b \in SeqRange(c.botids)
\* The deal is due to be armed again: its row was deleted for a reset in an
\* earlier cycle, this is the first cycle since to fetch its bot, and the
\* deal is active with profit at or above activation and a stop-loss that
\* does not come out 0.00.
DueAgain(d) ==
  /\ d \in reset
  /\ BotOf(d) \in fetched
  /\ platform[d].open
  /\ platform[d].actual_profit_percentage >= SectionOf(BotOf(d)).activation_percentage
  /\ ArmStoploss(FetchedDeal(d), SectionOf(BotOf(d))) # 0

\* C18: a deal whose row was deleted because of an external reset is armed
\* again in the first later cycle that fetches its bot and finds it active
\* with profit at or above activation and a computed stop-loss other than
\* 0.00: that cycle submits for it and ends with a row for it.
C18_RearmedAfterReset ==
  [][(state = "RUNNING" /\ phase = "interval")
       => \A d \in LongDeals :
            DueAgain(d) => /\ \E r \in submits : r.deal = d
                           /\ check_deal(db, d) # {}]_vars

\* A cycle armed a deal again whose row an earlier cycle had deleted for a
\* reset: the submit was acknowledged and the row exists.
C18_Witness ==
  /\ state = "RUNNING" /\ phase = "interval"
  /\ \E d \in LongDeals :
       /\ DueAgain(d)
       /\ d \in accepted
       /\ \E r \in submits : r.deal = d /\ r.ack
       /\ check_deal(db, d) # {}

\* C19: a step that changes a row that exists, and does not delete it,
\* stores a last_profit_percentage strictly above the one it held.
C19_StoredProfitRises ==
  [][\A r \in db : \A n \in db' :
       (n.dealid = r.dealid /\ n # r)
         => n.last_profit_percentage > r.last_profit_percentage]_vars

\* The row of a deal that had been trailed before was trailed again, to a
\* higher profit; in between the platform may have reported lower ones.
C19_Witness ==
  /\ last.op = "update_long_deal"
  /\ check_deal(last.rows, last.deal) # {}
  /\ check_deal(db, last.deal) # {}
  /\ NewRow # OldRow
  /\ OldRow.last_profit_percentage = 500
  /\ NewRow.last_profit_percentage = 600

\* C20: while the deals of one bot are processed (arming, trailing, removal
\* after a reset, reconciliation), every row created, changed or deleted
\* carries the id of that bot.
C20_OtherBotsRowsUntouched ==
  [][(state = "RUNNING" /\ phase = "deals")
       => \A r \in (db \ db') \cup (db' \ db) : r.botid = botdata.id]_vars

\* Reconciliation of bot 1 deleted rows of bot 1 and left the row of bot 2.
C20_Witness ==
  /\ last.op = "remove_closed_deals"
  /\ last.rows \ db # {}
  /\ \A r \in last.rows \ db : r.botid = 1
  /\ \E r \in db : r.botid = 2

====
